---- MODULE Spec2Model ----
(***************************************************************************)
(* MMM-RATP node helper: the fetch-and-normalize pipeline.                 *)
(*                                                                         *)
(* One step of the model is one event-loop task of the helper: a socket    *)
(* notification coming in, or one HTTP response (or failure) of the API    *)
(* client, together with every promise callback that runs because of it.   *)
(* Time is the value of Date.now(), in milliseconds since local midnight;  *)
(* the helper starts at 00:02 and the clock advances by half a minute at a *)
(* time.                                                                   *)
(***************************************************************************)
EXTENDS Integers, Sequences, FiniteSets, TLC

VARIABLES prevData, currData, cycles, joins, received, sent, now, anchor, event,
          message, parsed

vars == <<prevData, currData, cycles, joins, received, sent, now, anchor, event,
          message, parsed>>

\* ------------------------------------------------------------------------
\* Bounds of the model
\* ------------------------------------------------------------------------

\* number of socket notifications the host sends
MaxFetches == 2

\* number of FETCH_TIMETABLES notifications of the timetables refreshes
MaxRefreshes == 3

\* number of half-minute steps of the clock during the timetables refreshes
MaxTicks == 3

\* number of half-minute steps of the clock otherwise
MaxSkew == 1

\* number of socket notifications with two entries per category
MaxJoins == 1

\* ------------------------------------------------------------------------
\* JavaScript values
\* ------------------------------------------------------------------------

MsPerMinute == 60000

HalfMinute == MsPerMinute \div 2

\* Date.now() when the helper starts
StartTime == 2 * MsPerMinute

Null == [type |-> "null"]

NaN == [type |-> "NaN"]

Num(n) == [type |-> "number", value |-> n]

IsNum(v) == v.type = "number"

\* Math.round(n / d) for d > 0: the nearest integer, halves towards +Infinity
MathRound(n, d) == (2 * n + d) \div (2 * d)

\* {} and property assignment on an object
EmptyObject == [k \in {} |-> <<>>]

SetField(o, k, v) == [kk \in (DOMAIN o) \cup {k} |-> IF kk = k THEN v ELSE o[kk]]

\* reading a property: the value when the object has it, undefined otherwise
Has(o, k) == k \in DOMAIN o

\* ------------------------------------------------------------------------
\* Texts: a string is the sequence of its characters
\* ------------------------------------------------------------------------

Digits == <<"0", "1", "2", "3", "4", "5", "6", "7", "8", "9">>

IsDigit(ch) == \E d \in 1..10 : Digits[d] = ch

DigitValue(ch) == (CHOOSE d \in 1..10 : Digits[d] = ch) - 1

\* the case folding of the /i flag, over the letters the texts use
ToLower(ch) ==
  CASE ch = "T" -> "t" [] ch = "R" -> "r" [] ch = "A" -> "a"
    [] ch = "I" -> "i" [] ch = "N" -> "n" [] ch = "Q" -> "q"
    [] ch = "U" -> "u" [] ch = "M" -> "m" [] ch = "L" -> "l"
    [] ch = "P" -> "p" [] ch = "O" -> "o" [] ch = "C" -> "c"
    [] ch = "H" -> "h" [] ch = "E" -> "e" [] ch = "S" -> "s"
    [] ch = "À" -> "à"
    [] OTHER -> ch

LowerText(text) == [k \in 1..Len(text) |-> ToLower(text[k])]

\* text.indexOf(ch), 0-based, -1 when absent
IndexOf(text, ch) ==
  IF \E k \in 1..Len(text) : text[k] = ch
    THEN (CHOOSE k \in 1..Len(text) : text[k] = ch /\ \A j \in 1..(k - 1) : text[j] # ch) - 1
    ELSE -1

\* text.split(' ')[0]
FirstWord(text) ==
  IF IndexOf(text, " ") = -1 THEN text ELSE SubSeq(text, 1, IndexOf(text, " "))

\* Number(digits) for a non-empty run of decimal digits
RECURSIVE DigitsToNumber(_)
DigitsToNumber(ds) ==
  IF Len(ds) = 0 THEN 0
  ELSE 10 * DigitsToNumber(SubSeq(ds, 1, Len(ds) - 1)) + DigitValue(ds[Len(ds)])

SchedulesUnavailable ==
  <<"S", "c", "h", "e", "d", "u", "l", "e", "s", " ",
    "u", "n", "a", "v", "a", "i", "l", "a", "b", "l", "e">>

TrainPrefix == <<"t", "r", "a", "i", "n", " ">>

Quai == <<"q", "u", "a", "i">>

Approche == <<"l", "'", "a", "p", "p", "r", "o", "c", "h", "e">>

\* /^Train (a|à) (quai|l'approche)$/i
MatchesTrainRegex(text) ==
  LET t == LowerText(text) IN
    \E a \in {"a", "à"}, tail \in {Quai, Approche} :
      t = TrainPrefix \o <<a, " ">> \o tail

\* /^[0-9]+ mn$/i
MatchesMinutesRegex(text) ==
  /\ Len(text) >= 4
  /\ LowerText(SubSeq(text, Len(text) - 2, Len(text))) = <<" ", "m", "n">>
  /\ \A k \in 1..(Len(text) - 3) : IsDigit(text[k])

\* new Date(`${Y}-${M}-${D} ${word}`) is a valid date for a HH:mm (or H:mm)
\* clock time; any other word gives an Invalid Date
IsClockTime(word) ==
  LET c == IndexOf(word, ":") IN
    /\ c \in {1, 2}
    /\ Len(word) = c + 3
    /\ \A k \in 1..Len(word) : k # c + 1 => IsDigit(word[k])
    /\ DigitsToNumber(SubSeq(word, 1, c)) < 24
    /\ DigitsToNumber(SubSeq(word, c + 2, c + 3)) < 60

\* passingTime, in milliseconds since local midnight
ClockTimeMs(word) ==
  LET c == IndexOf(word, ":") IN
    (DigitsToNumber(SubSeq(word, 1, c)) * 60
       + DigitsToNumber(SubSeq(word, c + 2, c + 3))) * MsPerMinute

\* variant of parseWaitingTime: the minutes rule without the i flag
parseWaitingTimeExactCase(text, clock) ==
  IF text = SchedulesUnavailable THEN Null
  ELSE IF MatchesTrainRegex(text) THEN Num(0)
  ELSE IF MatchesMinutesRegex(text) /\ LowerText(text) = text
    THEN Num(DigitsToNumber(SubSeq(text, 1, Len(text) - 3)))
  ELSE IF IndexOf(text, ":") # -1
    THEN IF IsClockTime(FirstWord(text))
           THEN Num(MathRound(ClockTimeMs(FirstWord(text)) - clock, MsPerMinute))
           ELSE NaN
  ELSE Null

parseWaitingTime(text, clock) ==
  IF text = SchedulesUnavailable THEN Null
  ELSE IF MatchesTrainRegex(text) THEN Num(0)
  ELSE IF MatchesMinutesRegex(text)
    THEN Num(DigitsToNumber(SubSeq(text, 1, Len(text) - 3)))
  ELSE IF IndexOf(text, ":") # -1
    THEN IF IsClockTime(FirstWord(text))
           THEN Num(MathRound(ClockTimeMs(FirstWord(text)) - clock, MsPerMinute))
           ELSE NaN
  ELSE Null

\* variant of parseTrafficStatus: the status of the API as it is
parseTrafficStatusRaw(text) == text

parseTrafficStatus(text) ==
  CASE text = "normal_trav" -> "work"
    [] text = "alerte" -> "protest"
    [] text = "critical" -> "incident"
    [] OTHER -> text

\* variant of isWaitingTimeValid: an unknown waiting time is not valid
isWaitingTimeValidStrict(time) ==
  IsNum(time) /\ time.value >= 0

\* time === null || time >= 0 (NaN >= 0 is false)
isWaitingTimeValid(time) ==
  time = Null \/ (IsNum(time) /\ time.value >= 0)

\* timetable.length && timetable[0].waiting !== null: a pass has the
\* properties waitingTime and destination, so reading .waiting gives
\* undefined, which is not null
isTimetableAvailable(timetable) ==
  /\ Len(timetable) # 0
  /\ (Has(timetable[1], "waiting") => timetable[1].waiting # Null)

\* ------------------------------------------------------------------------
\* Promises
\* ------------------------------------------------------------------------

Undefined == [type |-> "undefined"]

Pending == [state |-> "pending"]

Fulfilled(v) == [state |-> "fulfilled", value |-> v]

Rejected == [state |-> "rejected"]

AnyRejected(ps) == \E k \in 1..Len(ps) : ps[k].state = "rejected"

AllFulfilled(ps) == \A k \in 1..Len(ps) : ps[k].state = "fulfilled"

\* Promise.all(ps), given the state `old` it had before a member settled: it
\* rejects with the first member that rejects, fulfils with the values of all
\* members once every one is fulfilled, and never changes once settled
PromiseAll(old, ps) ==
  IF old.state # "pending" THEN old
  ELSE IF AnyRejected(ps) THEN Rejected
  ELSE IF AllFulfilled(ps) THEN Fulfilled([k \in 1..Len(ps) |-> ps[k].value])
  ELSE Pending

\* ------------------------------------------------------------------------
\* The requests of the configuration and the answers of the API
\* ------------------------------------------------------------------------

Pyramides == [type |-> "metro", line |-> "14", station |-> "pyramides", direction |-> "A"]

Chatelet == [type |-> "rer", line |-> "B", station |-> "chatelet", direction |-> "R"]

TimetableConfigs == {<<>>, <<Pyramides>>, <<Chatelet>>}

\* the configuration the timetables refreshes send again and again
RefreshConfigs == {<<Pyramides>>}

Metro14 == [type |-> "metro", line |-> "14"]

RerB == [type |-> "rer", line |-> "B"]

TrafficConfigs == {<<Metro14>>}

\* configurations with two entries per category
FanInTimetables == {<<Pyramides, Chatelet>>}

FanInTraffic == {<<Metro14, RerB>>}

\* the body of /stations/{type}s/{line}: the stations of the line
StationsOfLine(line) ==
  IF line = "14"
    THEN <<[slug |-> "madeleine", name |-> "Madeleine"],
           [slug |-> "pyramides", name |-> "Pyramides"]>>
    ELSE <<[slug |-> "chatelet", name |-> "Chatelet les Halles"]>>

\* an answer of the API without the result wrapper
ErrorBody == [code |-> 400]

StationBodies(entry) ==
  { [result |-> [stations |-> StationsOfLine(entry.line)]],
    [result |-> [stations |-> <<[slug |-> "madeleine", name |-> "Madeleine"]>>]],
    ErrorBody }

Text2mn == <<"2", " ", "m", "n">>

TextMidnight == <<"0", "0", ":", "0", "0">>

\* the bodies of /schedules/...: no schedule at all, a timetable whose
\* first pass is known, and one whose first pass is unknown and whose
\* second is a clock time
ScheduleBodies ==
  { [result |-> [schedules |-> <<>>]],
    [result |-> [schedules |->
       <<[message |-> Text2mn, destination |-> "Olympiades"],
         [message |-> SchedulesUnavailable, destination |-> "Saint-Lazare"]>>]],
    [result |-> [schedules |->
       <<[message |-> SchedulesUnavailable, destination |-> "Olympiades"],
         [message |-> TextMidnight, destination |-> "Saint-Lazare"]>>]],
    ErrorBody }

TrafficBodies ==
  { [result |-> [slug |-> "normal", title |-> "Trafic normal", message |-> "Trafic normal"]],
    [result |-> [slug |-> "normal_trav", title |-> "Travaux", message |-> "Travaux"]],
    ErrorBody }

\* the bodies of /traffic/... with every status the helper renames, one it
\* does not rename and one the API may add later
StatusBodies ==
  { [result |-> [slug |-> "normal", title |-> "Trafic normal", message |-> "Trafic normal"]],
    [result |-> [slug |-> "normal_trav", title |-> "Travaux", message |-> "Travaux"]],
    [result |-> [slug |-> "alerte", title |-> "Mouvement social", message |-> "Greve"]],
    [result |-> [slug |-> "critical", title |-> "Incident", message |-> "Colis suspect"]],
    [result |-> [slug |-> "futur", title |-> "Nouveau", message |-> "Nouveau code"]],
    ErrorBody }

\* the messages of a schedule: the documented ones in several spellings,
\* near misses of each rule, clock times, texts with a colon that are no
\* clock time, and free text
Messages ==
  { <<"S", "c", "h", "e", "d", "u", "l", "e", "s", " ", "u", "n", "a", "v", "a", "i", "l", "a", "b", "l", "e">>,
    <<"s", "c", "h", "e", "d", "u", "l", "e", "s", " ", "u", "n", "a", "v", "a", "i", "l", "a", "b", "l", "e">>,
    <<"T", "r", "a", "i", "n", " ", "a", " ", "q", "u", "a", "i">>,
    <<"T", "r", "a", "i", "n", " ", "à", " ", "q", "u", "a", "i">>,
    <<"T", "R", "A", "I", "N", " ", "A", " ", "L", "'", "A", "P", "P", "R", "O", "C", "H", "E">>,
    <<"t", "r", "a", "i", "n", " ", "à", " ", "l", "'", "a", "p", "p", "r", "o", "c", "h", "e">>,
    <<"T", "r", "a", "i", "n", " ", "À", " ", "Q", "u", "a", "i">>,
    <<"T", "r", "a", "i", "n", " ", "a", " ", "q", "u", "a", "i", " ">>,
    <<"T", "r", "a", "i", "n", " ", "e", "n", " ", "a", "p", "p", "r", "o", "c", "h", "e">>,
    <<"2", " ", "m", "n">>,
    <<"0", " ", "m", "n">>,
    <<"1", "2", " ", "M", "N">>,
    <<"7", " ", "M", "n">>,
    <<"2", " ", "m", "n", " ", "3", "0">>,
    <<" ", "m", "n">>,
    <<"2", "m", "n">>,
    <<"-", "2", " ", "m", "n">>,
    <<"0", "0", ":", "0", "0">>,
    <<"0", "0", ":", "0", "4">>,
    <<"0", "0", ":", "0", "3", " ", "R", "e", "t", "a", "r", "d">>,
    <<"2", "3", ":", "5", "9">>,
    <<"2", "5", ":", "0", "0">>,
    <<"T", "r", "a", "i", "n", " ", "a", " ", "q", "u", "a", "i", ":">>,
    <<"R", "e", "t", "a", "r", "d", " ", "0", "0", ":", "0", "5">>,
    <<>>,
    <<"S", "e", "r", "v", "i", "c", "e", " ", "t", "e", "r", "m", "i", "n", "e">> }

\* what apiRequest(path) settles with: the parsed body, or a rejection
Responses(bodies) == {Rejected} \cup {Fulfilled(b) : b \in bodies}

\* .then((body) => body.result) on a settled request: a TypeError further
\* down the chain, hence a rejection, on a body without the result wrapper
ThenResult(resp) ==
  IF resp.state = "rejected" THEN Rejected
  ELSE IF ~Has(resp.value, "result") THEN Rejected
  ELSE Fulfilled(resp.value.result)

\* stations.find((s) => s.slug === entry.station)
FindStation(stations, slug) ==
  IF \E k \in 1..Len(stations) : stations[k].slug = slug
    THEN stations[CHOOSE k \in 1..Len(stations) :
           /\ stations[k].slug = slug
           /\ \A j \in 1..(k - 1) : stations[j].slug # slug]
    ELSE Undefined

\* timetable.map((nextPass) => ({ waitingTime: parseWaitingTime(...), destination }))
MapSchedules(schedules, clock) ==
  [k \in 1..Len(schedules) |->
     [waitingTime |-> parseWaitingTime(schedules[k].message, clock),
      destination |-> schedules[k].destination]]

\* Promise.all([station, timetable]).then(([station, timetable]) => ({...})):
\* reading station.name throws when find returned undefined
EntryPromise(old, station, timetable, entry, clock) ==
  LET both == PromiseAll(old, <<station, timetable>>) IN
    IF old.state # "pending" \/ both.state # "fulfilled" THEN both
    ELSE IF station.value = Undefined THEN Rejected
    ELSE Fulfilled([timetable |-> timetable.value,
                    lineType |-> entry.type,
                    lineName |-> entry.line,
                    stationName |-> station.value.name,
                    requestedAt |-> clock])

\* .then((traffic) => traffic.result).then((traffic) => ({...}))
TrafficInfo(entry, result) ==
  [lineType |-> entry.type,
   lineName |-> entry.line,
   lineStatus |-> parseTrafficStatus(result.slug),
   title |-> result.title,
   message |-> result.message]

\* ------------------------------------------------------------------------
\* State
\* ------------------------------------------------------------------------
\* prevData, currData  the two snapshots of the helper (start: both {})
\* cycles              the invocations of fetchTimetables / fetchTraffic that
\*                     still have a request in flight, by invocation number
\* joins               the Promise.all of every fetchAll that has not settled
\* received            number of socket notifications received
\* sent                the notifications the last task sent on the socket
\* now                 Date.now()
\* anchor              history: for each entry of currData.timetables, the
\*                     pass list observed from the API at its requestedAt and
\*                     the time the entry was committed
\* event               history: what the last task did, with the values its
\*                     Promise.all(requests) callback received and returned
\* message, parsed     the argument of a call of parseWaitingTime on its own
\*                     and what it returned (undefined before the call)

fetchOptions == [notify |-> TRUE]

NoCycle ==
  [category |-> "none", config |-> <<>>, notify |-> FALSE, fetchAll |-> 0,
   station |-> <<>>, timetable |-> <<>>, requests |-> <<>>, result |-> "none"]

NoEvent == [type |-> "none", cycle |-> 0, cyc |-> NoCycle,
            fetched |-> <<>>, returned |-> <<>>]

\* the task was about cycle c, which it left as cyc
EventOf(type, c, cyc, fetched, returned) ==
  [type |-> type, cycle |-> c, cyc |-> cyc, fetched |-> fetched, returned |-> returned]

\* fetchTimetables(config, options): one station and one schedule request
\* per entry are in flight
NewTimetablesCycle(config, options, fetchAllId) ==
  [category |-> "timetables", config |-> config, notify |-> options.notify,
   fetchAll |-> fetchAllId,
   station |-> [k \in 1..Len(config) |-> Pending],
   timetable |-> [k \in 1..Len(config) |-> Pending],
   requests |-> [k \in 1..Len(config) |-> Pending],
   result |-> "pending"]

\* fetchTraffic(config, options): one traffic request per entry is in flight
NewTrafficCycle(config, options, fetchAllId) ==
  [category |-> "traffic", config |-> config, notify |-> options.notify,
   fetchAll |-> fetchAllId,
   station |-> <<>>, timetable |-> <<>>,
   requests |-> [k \in 1..Len(config) |-> Pending],
   result |-> "pending"]

Init ==
  /\ prevData = EmptyObject
  /\ currData = EmptyObject
  /\ cycles = EmptyObject
  /\ joins = EmptyObject
  /\ received = 0
  /\ sent = <<>>
  /\ now = StartTime
  /\ anchor = <<>>
  /\ event = NoEvent
  /\ message = <<>>
  /\ parsed = Undefined

RemoveField(o, k) == [kk \in (DOMAIN o) \ {k} |-> o[kk]]

\* variant of Rotate: the previous snapshot is left as it is
RotateKeep(prev, curr, k) == prev

\* this.prevData[k] = this.currData[k]
Rotate(prev, curr, k) ==
  IF Has(curr, k) THEN SetField(prev, k, curr[k]) ELSE RemoveField(prev, k)

\* ToNumber of a waiting time in an arithmetic expression: null is 0
ToNumber(time) == IF time = Null THEN 0 ELSE time.value

\* Math.round(nextPass.waitingTime - ((Date.now() - requestedAt) / 60000))
EstimateWaitingTime(time, requestedAt, clock) ==
  IF time = NaN THEN NaN
  ELSE Num(MathRound(ToNumber(time) * MsPerMinute - (clock - requestedAt), MsPerMinute))

\* the forEach of the fallback: { ...nextPass, waitingTime }
EstimateTimetable(previous, clock) ==
  [k \in 1..Len(previous.timetable) |->
     [previous.timetable[k] EXCEPT
        !.waitingTime = EstimateWaitingTime(@, previous.requestedAt, clock)]]

\* the condition of the fallback, for an index the previous snapshot has
UseFallback(station, idx, prev) ==
  /\ ~isTimetableAvailable(station.timetable)
  /\ Has(prev, "timetables")
  /\ isTimetableAvailable(prev.timetables[idx].timetable)

\* the condition reads prevData.timetables[idx].timetable: a TypeError when
\* the previous snapshot has no entry at idx
FallbackThrows(station, idx, prev) ==
  /\ ~isTimetableAvailable(station.timetable)
  /\ Has(prev, "timetables")
  /\ idx > Len(prev.timetables)

FilterValid(timetable) ==
  SelectSeq(timetable, LAMBDA nextPass : isWaitingTimeValid(nextPass.waitingTime))

\* variant of MapStation: the estimate keeps the requestedAt of this cycle
MapStationStampedNow(station, idx, prev, clock) ==
  LET estimated ==
        IF UseFallback(station, idx, prev)
          THEN [timetable |-> EstimateTimetable(prev.timetables[idx], clock),
                estimation |-> TRUE] @@ station
          ELSE station
  IN [estimated EXCEPT !.timetable = FilterValid(@)]

\* the callback of timetables.map, with prev the rotated prevData
MapStation(station, idx, prev, clock) ==
  LET estimated ==
        IF UseFallback(station, idx, prev)
          THEN [timetable |-> EstimateTimetable(prev.timetables[idx], clock),
                requestedAt |-> prev.timetables[idx].requestedAt,
                estimation |-> TRUE] @@ station
          ELSE station
  IN [estimated EXCEPT !.timetable = FilterValid(@)]

IsEstimated(station) == Has(station, "estimation") /\ station.estimation

\* the history kept with a committed entry
AnchorOf(station, idx, prev, clock, oldAnchor) ==
  IF UseFallback(station, idx, prev)
    THEN [passes |-> oldAnchor[idx].passes, committedAt |-> clock]
    ELSE [passes |-> FilterValid(station.timetable), committedAt |-> clock]

\* variant of Notify: the test of options.notify inverted
NotifyInverted(c, cyc, name, value) ==
  IF ~cyc.notify
    THEN <<[notification |-> name, payload |-> value, cycle |-> c, fetchAll |-> 0]>>
    ELSE <<>>

\* sendSocketNotification from a cycle with options.notify
Notify(c, cyc, name, value) ==
  IF cyc.notify
    THEN <<[notification |-> name, payload |-> value, cycle |-> c, fetchAll |-> 0]>>
    ELSE <<>>

\* the member of the other category in the Promise.all of a fetchAll
Sibling(join, category) ==
  IF category = "timetables" THEN join.traffic ELSE join.timetables

\* the promise a cycle returns fulfils with value: the Promise.all of its
\* fetchAll takes the value and, once it has both, runs the callback that
\* sends DATA_ALL; js are the joins, out what the cycle has sent
JoinFulfilled(cyc, value, js, out) ==
  IF ~Has(js, cyc.fetchAll)
    THEN /\ joins' = js
         /\ sent' = out
    ELSE LET join == [js[cyc.fetchAll] EXCEPT ![cyc.category] = Fulfilled(value)]
             all == PromiseAll(Pending, <<join.timetables, join.traffic>>)
         IN /\ joins' = IF all.state = "pending"
                          THEN SetField(js, cyc.fetchAll, join)
                          ELSE RemoveField(js, cyc.fetchAll)
            /\ sent' = IF all.state = "fulfilled"
                         THEN Append(out,
                                [notification |-> "DATA_ALL",
                                 payload |-> [timetables |-> all.value[1],
                                              traffic |-> all.value[2]],
                                 cycle |-> 0, fetchAll |-> cyc.fetchAll])
                         ELSE out

\* the promise a cycle returns rejects: so does the Promise.all of its
\* fetchAll, whose callback never runs
JoinRejected(cyc, js) ==
  IF ~Has(js, cyc.fetchAll) THEN js
  ELSE IF Sibling(js[cyc.fetchAll], cyc.category).state = "pending"
    THEN SetField(js, cyc.fetchAll, [js[cyc.fetchAll] EXCEPT ![cyc.category] = Rejected])
    ELSE RemoveField(js, cyc.fetchAll)

\* a cycle stays in cycles as long as one of its requests is in flight
Keep(c, cyc) ==
  IF \E k \in 1..Len(cyc.config) :
       \/ cyc.requests[k].state = "pending"
       \/ /\ cyc.category = "timetables"
          /\ (cyc.station[k].state = "pending" \/ cyc.timetable[k].state = "pending")
    THEN SetField(cycles, c, cyc)
    ELSE RemoveField(cycles, c)

\* the callback of Promise.all(requests) in fetchTimetables
TimetablesThen(c, cyc, timetables, js) ==
  LET rotated == Rotate(prevData, currData, "timetables")
      throws == \E idx \in 1..Len(timetables) : FallbackThrows(timetables[idx], idx, rotated)
      mapped == [idx \in 1..Len(timetables) |-> MapStation(timetables[idx], idx, rotated, now)]
  IN /\ prevData' = rotated
     /\ IF throws
          THEN /\ event' = EventOf("throw", c, [cyc EXCEPT !.result = "rejected"],
                                timetables, <<>>)
               /\ joins' = JoinRejected(cyc, js)
               /\ sent' = <<>>
               /\ UNCHANGED <<currData, anchor>>
          ELSE /\ currData' = SetField(currData, "timetables", mapped)
               /\ anchor' = [idx \in 1..Len(timetables) |->
                               AnchorOf(timetables[idx], idx, rotated, now, anchor)]
               /\ event' = EventOf("commit", c, [cyc EXCEPT !.result = "fulfilled"],
                                timetables, mapped)
               /\ JoinFulfilled(cyc, mapped, js,
                    Notify(c, cyc, "DATA_TIMETABLES", mapped))

\* variant of TrafficThen: the rotation copied from fetchTimetables with its
\* slot
TrafficThenTimetablesSlot(c, cyc, traffic, js) ==
  /\ prevData' = Rotate(prevData, currData, "timetables")
  /\ currData' = SetField(currData, "traffic", traffic)
  /\ event' = EventOf("commit", c, [cyc EXCEPT !.result = "fulfilled"], traffic, traffic)
  /\ JoinFulfilled(cyc, traffic, js, Notify(c, cyc, "DATA_TRAFFIC", traffic))
  /\ UNCHANGED anchor

\* the callback of Promise.all(requests) in fetchTraffic
TrafficThen(c, cyc, traffic, js) ==
  /\ prevData' = Rotate(prevData, currData, "traffic")
  /\ currData' = SetField(currData, "traffic", traffic)
  /\ event' = EventOf("commit", c, [cyc EXCEPT !.result = "fulfilled"], traffic, traffic)
  /\ JoinFulfilled(cyc, traffic, js, Notify(c, cyc, "DATA_TRAFFIC", traffic))
  /\ UNCHANGED anchor

\* variant of NoCallback: the rotation done outside the callback of
\* Promise.all(requests), so that a cycle that fails rotates all the same
NoCallbackRotating(c, cyc, all) ==
  /\ cycles' = Keep(c, [cyc EXCEPT !.result = all.state])
  /\ event' = EventOf(IF cyc.result # "pending" THEN "late"
                      ELSE IF all.state = "rejected" THEN "reject"
                      ELSE "wait",
                      c, [cyc EXCEPT !.result = all.state], <<>>, <<>>)
  /\ joins' = IF cyc.result = "pending" /\ all.state = "rejected"
                THEN JoinRejected(cyc, joins)
                ELSE joins
  /\ sent' = <<>>
  /\ prevData' = IF all.state = "rejected"
                   THEN Rotate(prevData, currData, cyc.category)
                   ELSE prevData
  /\ UNCHANGED <<currData, anchor>>

\* Promise.all(requests) has not fulfilled in this task, and its callback
\* does not run: it keeps waiting, or rejects (and with it the promise the
\* cycle returns), or had rejected before
NoCallback(c, cyc, all) ==
  /\ cycles' = Keep(c, [cyc EXCEPT !.result = all.state])
  /\ event' = EventOf(IF cyc.result # "pending" THEN "late"
                      ELSE IF all.state = "rejected" THEN "reject"
                      ELSE "wait",
                      c, [cyc EXCEPT !.result = all.state], <<>>, <<>>)
  /\ joins' = IF cyc.result = "pending" /\ all.state = "rejected"
                THEN JoinRejected(cyc, joins)
                ELSE joins
  /\ sent' = <<>>
  /\ UNCHANGED <<prevData, currData, anchor>>

\* variant of Settle: the callback runs as soon as one request of the cycle
\* is fulfilled, with the results there are
SettleEager(c, cyc) ==
  LET done == SelectSeq(cyc.requests, LAMBDA p : p.state = "fulfilled")
      all == IF Len(done) > 0 THEN Fulfilled([k \in 1..Len(done) |-> done[k].value])
             ELSE PromiseAll(IF cyc.result = "pending" THEN Pending ELSE Rejected,
                             cyc.requests)
  IN
    IF cyc.result = "pending" /\ all.state = "fulfilled"
      THEN /\ cycles' = RemoveField(cycles, c)
           /\ IF cyc.category = "timetables"
                THEN TimetablesThen(c, cyc, all.value, joins)
                ELSE TrafficThen(c, cyc, all.value, joins)
      ELSE NoCallback(c, cyc, all)

\* what follows in cycle c, cyc being the cycle with the request that has
\* just settled: Promise.all(requests) fulfils and runs its callback, or not
Settle(c, cyc) ==
  LET all == PromiseAll(IF cyc.result = "pending" THEN Pending ELSE Rejected, cyc.requests) IN
    IF cyc.result = "pending" /\ all.state = "fulfilled"
      THEN /\ cycles' = RemoveField(cycles, c)
           /\ IF cyc.category = "timetables"
                THEN TimetablesThen(c, cyc, all.value, joins)
                ELSE TrafficThen(c, cyc, all.value, joins)
      ELSE NoCallback(c, cyc, all)

\* ------------------------------------------------------------------------
\* Actions
\* ------------------------------------------------------------------------

\* the invocation numbers of the cycles a notification starts
TimetablesId == 2 * received + 1

TrafficId == 2 * received + 2

PendingJoin == [timetables |-> Pending, traffic |-> Pending]

\* fetchTimetables(config, options), the cycle being cyc; an empty
\* configuration has no request to wait for, and the callback of
\* Promise.all([]) runs in the same task
StartTimetables(cyc, started, js) ==
  IF Len(cyc.config) = 0
    THEN /\ cycles' = started
         /\ TimetablesThen(TimetablesId, cyc, <<>>, js)
    ELSE /\ cycles' = SetField(started, TimetablesId, cyc)
         /\ joins' = js
         /\ event' = EventOf("start", TimetablesId, cyc, <<>>, <<>>)
         /\ sent' = <<>>
         /\ UNCHANGED <<prevData, currData, anchor>>

\* variant of FetchAll: the two cycles run with the default options
FetchAllNotifying(payload) ==
  StartTimetables(
    NewTimetablesCycle(payload.timetables, fetchOptions, received + 1),
    SetField(cycles, TrafficId,
      NewTrafficCycle(payload.traffic, fetchOptions, received + 1)),
    SetField(joins, received + 1, PendingJoin))

\* fetchAll(payload): both cycles with { notify: false }, joined by Promise.all
FetchAll(payload) ==
  StartTimetables(
    NewTimetablesCycle(payload.timetables, [notify |-> FALSE], received + 1),
    SetField(cycles, TrafficId,
      NewTrafficCycle(payload.traffic, [notify |-> FALSE], received + 1)),
    SetField(joins, received + 1, PendingJoin))

FetchTimetables(payload) ==
  StartTimetables(NewTimetablesCycle(payload, fetchOptions, 0), cycles, joins)

FetchTraffic(payload) ==
  /\ cycles' = SetField(cycles, TrafficId, NewTrafficCycle(payload, fetchOptions, 0))
  /\ event' = EventOf("start", TrafficId, cycles'[TrafficId], <<>>, <<>>)
  /\ sent' = <<>>
  /\ UNCHANGED <<prevData, currData, joins, anchor>>

\* socketNotificationReceived, case 'FETCH_ALL'
ReceiveFetchAll(max, timetableConfigs, trafficConfigs) ==
  /\ received < max
  /\ received' = received + 1
  /\ now' = now
  /\ \E tt \in timetableConfigs, tr \in trafficConfigs :
       FetchAll([timetables |-> tt, traffic |-> tr])
  /\ UNCHANGED <<message, parsed>>

\* socketNotificationReceived, case 'FETCH_TIMETABLES'
ReceiveFetchTimetables(max, timetableConfigs) ==
  /\ received < max
  /\ received' = received + 1
  /\ now' = now
  /\ \E tt \in timetableConfigs : FetchTimetables(tt)
  /\ UNCHANGED <<message, parsed>>

\* socketNotificationReceived, case 'FETCH_TRAFFIC'
ReceiveFetchTraffic(max, trafficConfigs) ==
  /\ received < max
  /\ received' = received + 1
  /\ now' = now
  /\ \E tr \in trafficConfigs : FetchTraffic(tr)
  /\ UNCHANGED <<message, parsed>>

\* socketNotificationReceived, default case
ReceiveOther(max) ==
  /\ received < max
  /\ received' = received + 1
  /\ event' = NoEvent
  /\ sent' = <<>>
  /\ UNCHANGED <<prevData, currData, cycles, joins, anchor, now, message, parsed>>

\* the station request of entry i of cycle c settles
StationResponse ==
  \E c \in DOMAIN cycles :
    /\ cycles[c].category = "timetables"
    /\ \E i \in 1..Len(cycles[c].config) :
         /\ cycles[c].station[i].state = "pending"
         /\ \E resp \in Responses(StationBodies(cycles[c].config[i])) :
              LET entry == cycles[c].config[i]
                  result == ThenResult(resp)
                  station == IF result.state = "rejected" THEN Rejected
                             ELSE Fulfilled(FindStation(result.value.stations, entry.station))
                  request == EntryPromise(cycles[c].requests[i], station,
                               cycles[c].timetable[i], entry, now)
              IN Settle(c, [cycles[c] EXCEPT !.station[i] = station,
                                             !.requests[i] = request])
    /\ UNCHANGED <<received, now, message, parsed>>

\* the schedules request of entry i of cycle c settles
ScheduleResponse ==
  \E c \in DOMAIN cycles :
    /\ cycles[c].category = "timetables"
    /\ \E i \in 1..Len(cycles[c].config) :
         /\ cycles[c].timetable[i].state = "pending"
         /\ \E resp \in Responses(ScheduleBodies) :
              LET entry == cycles[c].config[i]
                  result == ThenResult(resp)
                  timetable == IF result.state = "rejected" THEN Rejected
                               ELSE Fulfilled(MapSchedules(result.value.schedules, now))
                  request == EntryPromise(cycles[c].requests[i], cycles[c].station[i],
                               timetable, entry, now)
              IN Settle(c, [cycles[c] EXCEPT !.timetable[i] = timetable,
                                             !.requests[i] = request])
    /\ UNCHANGED <<received, now, message, parsed>>

\* the traffic request of entry i of cycle c settles, the API answering
\* with one of bodies
TrafficResponseOf(bodies) ==
  \E c \in DOMAIN cycles :
    /\ cycles[c].category = "traffic"
    /\ \E i \in 1..Len(cycles[c].config) :
         /\ cycles[c].requests[i].state = "pending"
         /\ \E resp \in Responses(bodies) :
              LET entry == cycles[c].config[i]
                  result == ThenResult(resp)
                  request == IF result.state = "rejected" THEN Rejected
                             ELSE Fulfilled(TrafficInfo(entry, result.value))
              IN Settle(c, [cycles[c] EXCEPT !.requests[i] = request])
    /\ UNCHANGED <<received, now, message, parsed>>

TrafficResponse == TrafficResponseOf(TrafficBodies)

\* time passes
Tick(max) ==
  /\ now < StartTime + max * HalfMinute
  /\ now' = now + HalfMinute
  /\ event' = NoEvent
  /\ sent' = <<>>
  /\ UNCHANGED <<prevData, currData, cycles, joins, received, anchor, message, parsed>>

\* every notification of the host, at most MaxFetches of them
Next ==
  \/ ReceiveFetchAll(MaxFetches, TimetableConfigs, TrafficConfigs)
  \/ ReceiveFetchTimetables(MaxFetches, TimetableConfigs)
  \/ ReceiveFetchTraffic(MaxFetches, TrafficConfigs)
  \/ ReceiveOther(MaxFetches)
  \/ StationResponse
  \/ ScheduleResponse
  \/ TrafficResponse
  \/ Tick(MaxSkew)

Spec == Init /\ [][Next]_vars

\* the timetables refreshes of the host alone, at most MaxRefreshes of them
NextTimetables ==
  \/ ReceiveFetchTimetables(MaxRefreshes, RefreshConfigs)
  \/ StationResponse
  \/ ScheduleResponse
  \/ Tick(MaxTicks)

SpecTimetables == Init /\ [][NextTimetables]_vars

\* the refreshes of one host with one configuration, FETCH_ALL or
\* FETCH_TIMETABLES, at most MaxFetches of them, over MaxTicks half minutes
NextRefreshes ==
  \/ ReceiveFetchAll(MaxFetches, RefreshConfigs, TrafficConfigs)
  \/ ReceiveFetchTimetables(MaxFetches, RefreshConfigs)
  \/ StationResponse
  \/ ScheduleResponse
  \/ TrafficResponse
  \/ Tick(MaxTicks)

SpecRefreshes == Init /\ [][NextRefreshes]_vars

\* the traffic refreshes of a host with two lines, the API answering with
\* any status
NextTraffic ==
  \/ ReceiveFetchTraffic(MaxFetches, FanInTraffic)
  \/ TrafficResponseOf(StatusBodies)

SpecTraffic == Init /\ [][NextTraffic]_vars

\* parseWaitingTime(message) is called, Date.now() being now
ParseWaitingTime ==
  /\ parsed = Undefined
  /\ parsed' = parseWaitingTime(message, now)
  /\ UNCHANGED <<prevData, currData, cycles, joins, received, sent, now, anchor,
                 event, message>>

\* the helper before a call of parseWaitingTime on one of the messages
InitParse ==
  /\ prevData = EmptyObject
  /\ currData = EmptyObject
  /\ cycles = EmptyObject
  /\ joins = EmptyObject
  /\ received = 0
  /\ sent = <<>>
  /\ now = StartTime
  /\ anchor = <<>>
  /\ event = NoEvent
  /\ message \in Messages
  /\ parsed = Undefined

NextParse ==
  \/ ParseWaitingTime
  \/ Tick(MaxTicks)

SpecParse == InitParse /\ [][NextParse]_vars

\* one notification of a host whose configuration has two entries per
\* category
NextFanIn ==
  \/ ReceiveFetchAll(MaxJoins, FanInTimetables, FanInTraffic)
  \/ ReceiveFetchTimetables(MaxJoins, FanInTimetables)
  \/ ReceiveFetchTraffic(MaxJoins, FanInTraffic)
  \/ StationResponse
  \/ ScheduleResponse
  \/ TrafficResponse
  \/ Tick(MaxSkew)

SpecFanIn == Init /\ [][NextFanIn]_vars

\* ------------------------------------------------------------------------
\* Properties
\* ------------------------------------------------------------------------

Categories == {"timetables", "traffic"}

\* the value of a slot of a snapshot, as a sequence: empty when undefined
Slot(data, k) == IF Has(data, k) THEN <<data[k]>> ELSE <<>>

\* the last task was the callback of a cycle of the category, and it committed
Committed(category) ==
  event.type = "commit" /\ event.cyc.category = category

\* availability as documented: non-empty, first waiting time not null
DocumentedAvailable(timetable) ==
  Len(timetable) # 0 /\ timetable[1].waitingTime # Null

\* null, or a number >= 0
NullOrNotNegative(time) ==
  time = Null \/ (time.type = "number" /\ time.value >= 0)

\* the nearest integer to milliseconds / 60000, a half going up
NearestMinute(milliseconds) ==
  CHOOSE r \in -100..100 :
    /\ 2 * r * MsPerMinute - MsPerMinute <= 2 * milliseconds
    /\ 2 * milliseconds < 2 * r * MsPerMinute + MsPerMinute

\* a waiting time of `time` minutes, elapsed milliseconds later (null counts
\* as 0 in the subtraction)
Decayed(time, elapsed) ==
  Num(NearestMinute((IF time = Null THEN 0 ELSE time.value) * MsPerMinute - elapsed))

\* C1: in fetchTimetables the fallback is applied to entry i exactly when
\* the fetched timetable of entry i is not available (empty, or first
\* waiting time null) and a previous snapshot exists whose entry i is
\* available (non-empty, first waiting time not null); in every other case
\* the committed entry keeps the fetched passes and is not marked estimated.
C1_FallbackExactlyWhenUnavailable ==
  Committed("timetables") =>
    \A i \in 1..Len(event.fetched) :
      LET applies ==
            /\ ~DocumentedAvailable(event.fetched[i].timetable)
            /\ Has(prevData, "timetables")
            /\ i <= Len(prevData.timetables)
            /\ DocumentedAvailable(prevData.timetables[i].timetable)
      IN /\ IsEstimated(currData.timetables[i]) <=> applies
         /\ ~applies =>
              currData.timetables[i].timetable =
                SelectSeq(event.fetched[i].timetable,
                          LAMBDA nextPass : NullOrNotNegative(nextPass.waitingTime))

\* the fallback of the code ran for entry i of the cycle that has committed
FallbackRan(i) ==
  /\ Len(event.fetched[i].timetable) = 0
  /\ Has(prevData, "timetables")
  /\ Len(prevData.timetables[i].timetable) # 0

\* C2: whenever the fallback is applied to entry i of a fetchTimetables
\* cycle, the committed entry is marked estimated, its requestedAt is the
\* previous entry's requestedAt, and its pass list is, in the previous order
\* and with each destination kept, the previous entry's passes with waiting
\* time round(previousWaitingTime - (now - previousRequestedAt) / 60000),
\* minus those the validity filter drops.
C2_FallbackEstimate ==
  Committed("timetables") =>
    \A i \in 1..Len(event.fetched) :
      FallbackRan(i) =>
        LET previous == prevData.timetables[i]
            entry == currData.timetables[i]
            estimates ==
              [k \in 1..Len(previous.timetable) |->
                 [waitingTime |-> Decayed(previous.timetable[k].waitingTime,
                                          now - previous.requestedAt),
                  destination |-> previous.timetable[k].destination]]
        IN /\ Has(entry, "estimation") /\ entry.estimation = TRUE
           /\ entry.requestedAt = previous.requestedAt
           /\ entry.timetable =
                SelectSeq(estimates, LAMBDA nextPass : nextPass.waitingTime.value >= 0)

\* C2 witness: a pass observed 2 minutes away is committed as an estimate of
\* 1 minute, a minute after the observation it stays anchored to
C2_Witness ==
  /\ Committed("timetables")
  /\ Len(event.fetched) = 1
  /\ FallbackRan(1)
  /\ prevData.timetables[1].timetable[1].waitingTime = Num(2)
  /\ currData.timetables[1].requestedAt = now - MsPerMinute
  /\ currData.timetables[1].timetable =
       <<[waitingTime |-> Num(1), destination |-> "Olympiades"]>>

\* C3: after any sequence of fetchTimetables cycles, every estimated entry
\* of current.timetables has each waiting time equal to the waiting time
\* observed from the API at the entry's requestedAt, decreased once by the
\* time between requestedAt and the commit of the entry (passes are matched
\* by destination; the observed time is a number).
C3_EstimateDecaysOnce ==
  Has(currData, "timetables") =>
    \A i \in 1..Len(currData.timetables) :
      IsEstimated(currData.timetables[i]) =>
        \A k \in 1..Len(currData.timetables[i].timetable) :
          \A j \in 1..Len(anchor[i].passes) :
            LET nextPass == currData.timetables[i].timetable[k]
                observed == anchor[i].passes[j]
            IN (observed.destination = nextPass.destination
                  /\ observed.waitingTime # Null) =>
                 nextPass.waitingTime =
                   Decayed(observed.waitingTime,
                           anchor[i].committedAt - currData.timetables[i].requestedAt)

\* C4: for each category, previous is the value current held immediately
\* before the most recent write of current: the rotation and the install of
\* the new current happen in one task or not at all, so a task that does not
\* commit the category leaves both slots of the category as they were.
C4_RotateAndInstallTogether ==
  [][\A k \in Categories :
       IF event'.type = "commit" /\ event'.cyc.category = k
         THEN /\ Slot(prevData', k) = Slot(currData, k)
              /\ Slot(currData', k) = <<event'.returned>>
         ELSE /\ Slot(prevData', k) = Slot(prevData, k)
              /\ Slot(currData', k) = Slot(currData, k)]_vars

\* every pass of the timetables has a waiting time that is null or >= 0
ValidPasses(timetables) ==
  \A i \in 1..Len(timetables) :
    \A k \in 1..Len(timetables[i].timetable) :
      NullOrNotNegative(timetables[i].timetable[k].waitingTime)

\* C5: after every fetchTimetables commit, and in every DATA_TIMETABLES and
\* DATA_ALL payload, every pass has a waiting time that is null or >= 0; the
\* passes of a live timetable are the fetched passes without the negative
\* ones, those with a null waiting time retained.
C5_ValidWaitingTimes ==
  /\ Has(currData, "timetables") => ValidPasses(currData.timetables)
  /\ \A m \in 1..Len(sent) :
       /\ sent[m].notification = "DATA_TIMETABLES" => ValidPasses(sent[m].payload)
       /\ sent[m].notification = "DATA_ALL" => ValidPasses(sent[m].payload.timetables)
  /\ Committed("timetables") =>
       \A i \in 1..Len(event.fetched) :
         ~IsEstimated(currData.timetables[i]) =>
           currData.timetables[i].timetable =
             SelectSeq(event.fetched[i].timetable,
                       LAMBDA nextPass : ~(nextPass.waitingTime.type = "number"
                                            /\ nextPass.waitingTime.value < 0))

\* C5 witness: a DATA_ALL carries a live timetable fetched as [null, -2]
\* with the unknown pass retained and the negative one dropped
C5_Witness ==
  /\ Committed("timetables")
  /\ Len(event.fetched) = 1
  /\ Len(event.fetched[1].timetable) = 2
  /\ event.fetched[1].timetable[1].waitingTime = Null
  /\ event.fetched[1].timetable[2].waitingTime = Num(-2)
  /\ Len(sent) = 1
  /\ sent[1].notification = "DATA_ALL"
  /\ ~IsEstimated(sent[1].payload.timetables[1])
  /\ sent[1].payload.timetables[1].timetable =
       <<[waitingTime |-> Null, destination |-> "Olympiades"]>>

\* a request of the cycle has rejected: a traffic request, or the request of
\* a timetables entry, which rejects when its station or its schedules
\* request does (or when the station is not in the answer)
RequestRejected(cyc) ==
  \E k \in 1..Len(cyc.config) : cyc.requests[k].state = "rejected"

\* C6: if a station, schedules or traffic request of a cycle rejects, the
\* batch of that category is aborted: no task of the cycle changes the
\* previous or current slot of its category or sends a notification,
\* whatever the other requests do, and the fetchAll the cycle belongs to
\* sends no DATA_ALL.
C6_RejectionAbortsBatch ==
  [][/\ RequestRejected(event'.cyc) =>
          /\ sent' = <<>>
          /\ event'.type # "commit"
          /\ Slot(prevData', event'.cyc.category) = Slot(prevData, event'.cyc.category)
          /\ Slot(currData', event'.cyc.category) = Slot(currData, event'.cyc.category)
     /\ \A c \in DOMAIN cycles :
          (RequestRejected(cycles[c]) /\ cycles[c].fetchAll # 0) =>
            \A m \in 1..Len(sent') : sent'[m].fetchAll # cycles[c].fetchAll
     /\ \A f \in DOMAIN joins :
          (joins[f].timetables.state = "rejected" \/ joins[f].traffic.state = "rejected") =>
            \A m \in 1..Len(sent') : sent'[m].fetchAll # f]_vars

\* C6 witness: after the station request of a FETCH_ALL was rejected, its
\* schedules request is answered with a timetable and nothing is committed
C6_Witness ==
  /\ event.type = "late"
  /\ event.cyc.category = "timetables"
  /\ event.cyc.fetchAll # 0
  /\ event.cyc.station[1].state = "rejected"
  /\ event.cyc.timetable[1].state = "fulfilled"
  /\ Len(event.cyc.timetable[1].value) > 0
  /\ ~Has(currData, "timetables")
  /\ Has(currData, "traffic")
  /\ sent = <<>>

\* C7: a FETCH_ALL whose two cycles both succeed produces exactly one
\* notification, DATA_ALL, sent by the task in which the second of the two
\* commits and carrying the two results; its cycles send no DATA_TIMETABLES
\* and no DATA_TRAFFIC.
C7_OneDataAll ==
  [][/\ (event'.type = "commit" /\ event'.cyc.fetchAll # 0) =>
          LET f == event'.cyc.fetchAll
              k == event'.cyc.category
          IN IF Has(joins, f) /\ Sibling(joins[f], k).state = "fulfilled"
               THEN sent' =
                      <<[notification |-> "DATA_ALL",
                         payload |->
                           IF k = "timetables"
                             THEN [timetables |-> event'.returned,
                                   traffic |-> joins[f].traffic.value]
                             ELSE [timetables |-> joins[f].timetables.value,
                                   traffic |-> event'.returned],
                         cycle |-> 0, fetchAll |-> f]>>
               ELSE sent' = <<>>
     /\ \A m \in 1..Len(sent') :
          sent'[m].notification = "DATA_ALL" =>
            /\ event'.type = "commit"
            /\ event'.cyc.fetchAll = sent'[m].fetchAll
            /\ Has(joins, sent'[m].fetchAll)
            /\ ~Has(joins', sent'[m].fetchAll)
            /\ sent'[m].payload.timetables = currData'.timetables
                 \/ sent'[m].payload.traffic = currData'.traffic]_vars

\* C7 witness: the one notification of a task is a DATA_ALL with a
\* timetable and a traffic entry
C7_Witness ==
  /\ Len(sent) = 1
  /\ sent[1].notification = "DATA_ALL"
  /\ Len(sent[1].payload.timetables) = 1
  /\ Len(sent[1].payload.timetables[1].timetable) > 0
  /\ Len(sent[1].payload.traffic) = 1
  /\ event.cyc.notify = FALSE

\* the notification of a category
DataOf(category) ==
  IF category = "timetables" THEN "DATA_TIMETABLES" ELSE "DATA_TRAFFIC"

\* C8: a successful cycle with options.notify true, the default that
\* FETCH_TIMETABLES and FETCH_TRAFFIC run with, sends exactly one
\* DATA_TIMETABLES (resp. DATA_TRAFFIC) whose payload is the current
\* snapshot it has just committed; with notify false it sends none; in both
\* cases it returns the committed sequence.
C8_NotifyAfterCommit ==
  /\ event.cyc.category \in Categories =>
       (event.cyc.notify <=> event.cyc.fetchAll = 0)
  /\ \A k \in Categories :
       Committed(k) =>
         /\ event.returned = currData[k]
         /\ SelectSeq(sent, LAMBDA m : m.notification # "DATA_ALL") =
              IF event.cyc.notify
                THEN <<[notification |-> DataOf(k), payload |-> currData[k],
                        cycle |-> event.cycle, fetchAll |-> 0]>>
                ELSE <<>>
  /\ \A m \in 1..Len(sent) :
       sent[m].notification # "DATA_ALL" => event.type = "commit"

\* C8 witness: a FETCH_TIMETABLES cycle has committed a timetable and sent it
C8_Witness ==
  /\ Committed("timetables")
  /\ event.cyc.notify
  /\ Len(sent) = 1
  /\ sent[1].notification = "DATA_TIMETABLES"
  /\ Len(sent[1].payload) = 1
  /\ Len(sent[1].payload[1].timetable) > 0

\* C9: cycles of one category that overlap are neither excluded nor queued:
\* each commits when its own requests have all resolved, and when one
\* commits, current holds its result and previous holds what current held,
\* the result of the cycle that completed before it, whatever the order in
\* which the cycles were started.
C9_LastCommitWins ==
  [][\A k \in Categories :
       /\ (event'.type = "commit" /\ event'.cyc.category = k) =>
            /\ currData'[k] = event'.returned
            /\ Slot(prevData', k) = Slot(currData, k)
       /\ ~(event'.type = "commit" /\ event'.cyc.category = k) =>
            Slot(currData', k) = Slot(currData, k)
       /\ \A c \in DOMAIN cycles :
            (/\ cycles[c].category = k
             /\ cycles[c].result = "pending"
             /\ c \notin DOMAIN cycles'
             /\ ~RequestRejected(event'.cyc)) =>
              /\ event'.cycle = c
              /\ event'.type \in {"commit", "throw"}]_vars

\* C9 witness: of two overlapping timetables cycles the one started first
\* commits last, and previous holds the result of the one started second
C9_Witness ==
  /\ received = 2
  /\ Committed("timetables")
  /\ event.cycle = 1
  /\ DOMAIN cycles = {}
  /\ Has(prevData, "timetables")
  /\ Len(prevData.timetables) = 1
  /\ prevData.timetables[1].requestedAt < currData.timetables[1].requestedAt
  /\ prevData.timetables[1].lineName # currData.timetables[1].lineName

\* C10: a task of a timetables cycle leaves previous.traffic and
\* current.traffic unchanged, and a task of a traffic cycle leaves
\* previous.timetables and current.timetables unchanged.
C10_CategoriesDisjoint ==
  [][/\ event'.cyc.category = "timetables" =>
          /\ Slot(prevData', "traffic") = Slot(prevData, "traffic")
          /\ Slot(currData', "traffic") = Slot(currData, "traffic")
     /\ event'.cyc.category = "traffic" =>
          /\ Slot(prevData', "timetables") = Slot(prevData, "timetables")
          /\ Slot(currData', "timetables") = Slot(currData, "timetables")]_vars

\* C10 witness: the traffic cycle of a fetchAll commits for the second time
\* between the commit of a timetables cycle and a timetables cycle in flight
C10_Witness ==
  /\ Committed("traffic")
  /\ Has(prevData, "traffic")
  /\ Has(currData, "timetables")
  /\ \E c \in DOMAIN cycles :
       cycles[c].category = "timetables" /\ cycles[c].result = "pending"

\* the number of API requests of the cycle that have not settled
InFlight(cyc) ==
  Cardinality({k \in 1..Len(cyc.config) :
                 cyc.category = "traffic" /\ cyc.requests[k].state = "pending"})
  + Cardinality({k \in 1..Len(cyc.config) :
                   cyc.category = "timetables" /\ cyc.station[k].state = "pending"})
  + Cardinality({k \in 1..Len(cyc.config) :
                   cyc.category = "timetables" /\ cyc.timetable[k].state = "pending"})

\* C11: a cycle commits and notifies only in the task in which the last of
\* its per-entry requests resolves, every other one having resolved before:
\* current is written, and a notification sent, by no other task; what is
\* committed has one entry per entry of the configuration, in order, each
\* from the request of that entry; as long as a request of the cycle has
\* not settled the cycle does not commit.
C11_CommitAfterEveryRequest ==
  [][/\ (currData' # currData \/ sent' # <<>>) => event'.type = "commit"
     /\ event'.type = "commit" =>
          LET cyc == event'.cyc
              k == cyc.category
          IN /\ InFlight(cyc) = 0
             /\ \A i \in 1..Len(cyc.config) : cyc.requests[i].state = "fulfilled"
             /\ Has(cycles, event'.cycle) => InFlight(cycles[event'.cycle]) = 1
             /\ ~Has(cycles', event'.cycle)
             /\ Len(currData'[k]) = Len(cyc.config)
             /\ \A i \in 1..Len(cyc.config) :
                  /\ currData'[k][i].lineType = cyc.config[i].type
                  /\ currData'[k][i].lineName = cyc.config[i].line
                  /\ k = "traffic" => currData'[k][i] = cyc.requests[i].value
                  /\ k = "timetables" =>
                       /\ currData'[k][i].stationName = cyc.station[i].value.name
                       /\ ~IsEstimated(currData'[k][i]) =>
                            /\ currData'[k][i].requestedAt = cyc.requests[i].value.requestedAt
                            /\ currData'[k][i].timetable =
                                 SelectSeq(cyc.timetable[i].value,
                                           LAMBDA nextPass : NullOrNotNegative(nextPass.waitingTime))
     /\ \A c \in DOMAIN cycles :
          (Has(cycles', c) /\ InFlight(cycles'[c]) > 0) =>
            ~(event'.type = "commit" /\ event'.cycle = c)]_vars

\* C11 witness: a FETCH_TIMETABLES cycle of two entries has committed both,
\* one of them with passes, and notified
C11_Witness ==
  /\ Committed("timetables")
  /\ Len(event.cyc.config) = 2
  /\ Len(currData.timetables) = 2
  /\ currData.timetables[1].stationName = "Pyramides"
  /\ currData.timetables[2].stationName = "Chatelet les Halles"
  /\ Len(currData.timetables[2].timetable) > 0
  /\ Len(sent) = 1
  /\ sent[1].notification = "DATA_TIMETABLES"

\* the decimal numeral of n < 100, and the two digits of a clock field
Numeral(n) ==
  IF n < 10 THEN <<Digits[n + 1]>> ELSE <<Digits[(n \div 10) + 1], Digits[(n % 10) + 1]>>

TwoDigits(n) == <<Digits[(n \div 10) + 1], Digits[(n % 10) + 1]>>

\* the texts of the train rule, in lower case
TrainTexts ==
  { <<"t", "r", "a", "i", "n", " ", "a", " ", "q", "u", "a", "i">>,
    <<"t", "r", "a", "i", "n", " ", "à", " ", "q", "u", "a", "i">>,
    <<"t", "r", "a", "i", "n", " ", "a", " ", "l", "'", "a", "p", "p", "r", "o", "c", "h", "e">>,
    <<"t", "r", "a", "i", "n", " ", "à", " ", "l", "'", "a", "p", "p", "r", "o", "c", "h", "e">> }

\* text is "<n> mn", in any case
IsMinutesText(text, n) ==
  \E m \in {"m", "M"}, nn \in {"n", "N"} : text = Numeral(n) \o <<" ", m, nn>>

\* the first word of text is the clock time h:m written HH:mm
IsClockText(text, h, m) ==
  FirstWord(text) = TwoDigits(h) \o <<":">> \o TwoDigits(m)

\* r is the nearest integer to milliseconds / 60000, a half going up
IsNearestMinute(r, milliseconds) ==
  /\ 2 * r * MsPerMinute - MsPerMinute <= 2 * milliseconds
  /\ 2 * milliseconds < 2 * r * MsPerMinute + MsPerMinute

\* what the ordered rules give for text at the time clock: result
RuleResult(text, clock, result) ==
  IF text = SchedulesUnavailable THEN result = Null
  ELSE IF LowerText(text) \in TrainTexts THEN result = Num(0)
  ELSE IF \E n \in 0..99 : IsMinutesText(text, n)
    THEN \A n \in 0..99 : IsMinutesText(text, n) => result = Num(n)
  ELSE IF \E k \in 1..Len(text) : text[k] = ":"
    THEN \A h \in 0..23, m \in 0..59 :
           IsClockText(text, h, m) =>
             /\ result.type = "number"
             /\ IsNearestMinute(result.value, (h * 60 + m) * MsPerMinute - clock)
  ELSE result = Null

\* C12: parseWaitingTime applies its rules in order, the first that matches
\* deciding: "Schedules unavailable" gives null; else "Train (a|à)
\* (quai|l'approche)" in any case gives 0; else "<integer> mn" in any case
\* gives the integer; else a text with a colon whose first word is a HH:mm
\* clock time gives round((that time today - now) / 60000), negative when
\* the time has passed; else, without a colon, null.
C12_OrderedRules ==
  [][(parsed = Undefined /\ parsed' # Undefined) => RuleResult(message, now, parsed')]_vars

\* C12 witness: a clock time that has passed was parsed to a negative
\* number of minutes, half a minute rounding up
C12_Witness ==
  /\ message = <<"0", "0", ":", "0", "0">>
  /\ parsed = Num(-2)
  /\ now > StartTime + HalfMinute

\* C13: for every message, also one with a colon that is no clock time,
\* parseWaitingTime returns an integer or null (it throws for none: the
\* call always returns).
C13_IntegerOrNull ==
  parsed # Undefined => (parsed = Null \/ parsed.type = "number")

\* the status codes and what the display is given for them
StatusNames ==
  { <<"normal", "normal">>, <<"normal_trav", "work">>, <<"alerte", "protest">>,
    <<"critical", "incident">>, <<"futur", "futur">> }

\* info is what a traffic entry becomes for the answer body of the API
IsTrafficInfoOf(info, entry, body) ==
  /\ DOMAIN info = {"lineType", "lineName", "lineStatus", "title", "message"}
  /\ info.lineType = entry.type
  /\ info.lineName = entry.line
  /\ <<body.result.slug, info.lineStatus>> \in StatusNames
  /\ info.title = body.result.title
  /\ info.message = body.result.message

\* C14: after a successful fetchTraffic cycle current.traffic has one entry
\* per request, in request order, each made of the line of the request and
\* of what the API answered to that request in this cycle, whatever the
\* previous snapshot holds, with normal_trav renamed work, alerte protest,
\* critical incident, and any other status as it came.
C14_TrafficFromThisCycle ==
  Committed("traffic") =>
    /\ Len(currData.traffic) = Len(event.cyc.config)
    /\ \A i \in 1..Len(event.cyc.config) :
         /\ currData.traffic[i] = event.cyc.requests[i].value
         /\ \E body \in StatusBodies \ {ErrorBody} :
              IsTrafficInfoOf(currData.traffic[i], event.cyc.config[i], body)

\* C14 witness: the second traffic cycle has committed a protest and a
\* status the helper does not know, over a previous snapshot with works
C14_Witness ==
  /\ Committed("traffic")
  /\ Has(prevData, "traffic")
  /\ prevData.traffic[1].lineStatus = "work"
  /\ prevData.traffic[2].lineStatus = "incident"
  /\ currData.traffic[1].lineStatus = "protest"
  /\ currData.traffic[1].lineName = "14"
  /\ currData.traffic[2].lineStatus = "futur"
  /\ currData.traffic[2].lineName = "B"

\* C15: when the fallback is applied to entry i, every previous pass whose
\* estimated waiting time is below 0 is absent from the committed timetable,
\* and every previous pass whose waiting time was null is in the committed
\* timetable with waiting time null (passes are told apart by destination).
C15_UnknownStaysUnknown ==
  Committed("timetables") =>
    \A i \in 1..Len(event.fetched) :
      FallbackRan(i) =>
        \A k \in 1..Len(prevData.timetables[i].timetable) :
          LET previous == prevData.timetables[i]
              nextPass == previous.timetable[k]
              committed == {j \in 1..Len(currData.timetables[i].timetable) :
                              currData.timetables[i].timetable[j].destination
                                = nextPass.destination}
          IN IF nextPass.waitingTime = Null
               THEN \E j \in committed :
                      currData.timetables[i].timetable[j].waitingTime = Null
               ELSE Decayed(nextPass.waitingTime, now - previous.requestedAt).value < 0
                      => committed = {}

\* C16: every estimated entry of current.timetables derives from a
\* previous observation of the same request: when a cycle commits an
\* estimated entry at index i, the previous entry at index i, whose passes
\* and requestedAt it copies, is of the same line type, line and station,
\* also when the request list differs from that of the cycle before.
C16_EstimateOfTheSameRequest ==
  Committed("timetables") =>
    \A i \in 1..Len(currData.timetables) :
      IsEstimated(currData.timetables[i]) =>
        /\ prevData.timetables[i].lineType = event.cyc.config[i].type
        /\ prevData.timetables[i].lineName = event.cyc.config[i].line
        /\ prevData.timetables[i].stationName = currData.timetables[i].stationName

\* C17: every notification carries, for each category it contains, the
\* value current holds for that category when it is sent; a DATA_ALL does
\* not deliver timetables or traffic older than current.
C17_NotificationsCarryCurrent ==
  \A m \in 1..Len(sent) :
    /\ sent[m].notification = "DATA_TIMETABLES" => sent[m].payload = currData.timetables
    /\ sent[m].notification = "DATA_TRAFFIC" => sent[m].payload = currData.traffic
    /\ sent[m].notification = "DATA_ALL" =>
         /\ sent[m].payload.timetables = currData.timetables
         /\ sent[m].payload.traffic = currData.traffic

\* C18: a fetchTimetables cycle all of whose station and schedules requests
\* have resolved with well-formed answers commits, in the task of the last
\* answer, a current.timetables with one entry per request in request order,
\* and notifies when notify is true, whatever the previous snapshot holds
\* and whether or not the station list has the configured slug.
C18_ResolvedCycleCommits ==
  (/\ event.cyc.category = "timetables"
   /\ \A i \in 1..Len(event.cyc.config) :
        /\ event.cyc.station[i].state = "fulfilled"
        /\ event.cyc.timetable[i].state = "fulfilled") =>
    /\ event.type = "commit"
    /\ Len(currData.timetables) = Len(event.cyc.config)
    /\ \A i \in 1..Len(event.cyc.config) :
         /\ currData.timetables[i].lineType = event.cyc.config[i].type
         /\ currData.timetables[i].lineName = event.cyc.config[i].line
    /\ event.cyc.notify =>
         \E m \in 1..Len(sent) :
           /\ sent[m].notification = "DATA_TIMETABLES"
           /\ sent[m].payload = currData.timetables

====
